---- MODULE Spec2Model ----
(***************************************************************************)
(* Colshape registry, spatial grid and membership scheduler of             *)
(* code/components/extra-natives-five/src/ColshapeNatives.cpp.             *)
(*                                                                         *)
(* Two execution contexts share one ColShapeManager: the script thread,    *)
(* which runs the COLSHAPE_* native handlers, and ColShapeThread::Run,     *)
(* which calls ColShapeManager::Update every updateIntervalMs.  The source *)
(* takes no lock, so the statements of Update interleave with the native   *)
(* handlers.  World coordinates are integers here (the source uses float). *)
(* No code of the file calls ColShapeThread::Shutdown; SpecShutdown adds a  *)
(* host thread that does.                                                  *)
(***************************************************************************)
EXTENDS Integers, Sequences, FiniteSets, TLC

cellSize == 1000
kAutoInfiniteThreshold == 2000

\* Size of the pool of addresses make_unique<ColShape>() can return.
MaxAddr == 2
Addr == 1..MaxAddr

\* Identifiers the scripts pass to the natives: every native is called with
\* "zone1", the cube native and the delete native also with "".
Ids == {"zone1", ""}
MainIds == {"zone1"}
\* What a read of shape->id yields when the bytes are no longer a ColShape's.
Garbage == "<freed>"

Vec(x, y, z) == [x |-> x, y |-> y, z |-> z]

\* Arguments the scripts pass to the natives.
Centers == {Vec(1000, 1000, 0)}
Radii == {-1, 500}
SphereRadii == {0}
CylinderRadii == {500}
Heights == {-10}
CubeCorner1 == {Vec(1500, 1500, 10)}
CubeCorner2 == {Vec(1500, 1500, 10)}
RectX2 == {2500}
\* Positions GET_ENTITY_COORDS returns for the player ped.
Points == {Vec(1000, 1000, 0), Vec(1500, 1500, 10)}

Min(a, b) == IF a <= b THEN a ELSE b
Max(a, b) == IF a >= b THEN a ELSE b

\* std::floor(v / cellSize) converted to int (cellSize > 0).
CellOf(v) == v \div cellSize

VARIABLES
    heap,                    \* storage of the ColShape objects: address -> ColShape
    colShapes_,              \* colShapeId -> owning pointer
    infiniteShapes_,         \* pointers of the shapes that skip the grid
    grid_,                   \* (cx, cy) -> set of shape pointers
    playerInsideColShapes_,  \* pointers of the shapes the player is inside
    pc,                      \* where ColShapeThread::Run is
    playerPos,               \* Update's local playerPos
    currentInside,           \* Update's local currentInside
    newlyEntered,            \* Update's local newlyEntered
    newlyLeft,               \* Update's local newlyLeft
    events,                  \* QueueEvent2 calls made by the last step
    last,                    \* the last step taken and, for a native, its result
    shutdown_,               \* ColShapeThread::shutdown_
    joining,                 \* where the caller of ColShapeThread::Shutdown is
    previousInside,          \* history: playerInsideColShapes_ when the tick began
    gone,                    \* history: the last shape deleted while in playerInsideColShapes_
    lateTicks,               \* history: calls of Update begun after shutdown_ was set
    unmatched                \* history: ids whose last event was an enter (SpecEvents)

shared == <<heap, colShapes_, infiniteShapes_, grid_, playerInsideColShapes_>>
locals == <<playerPos, currentInside, newlyEntered, newlyLeft>>
vars == <<heap, colShapes_, infiniteShapes_, grid_, playerInsideColShapes_,
          pc, playerPos, currentInside, newlyEntered, newlyLeft,
          events, last, shutdown_, joining, previousInside, gone, lateTicks, unmatched>>
thread == <<shutdown_, joining, lateTicks>>

\* gone: the id and the freed address (0 once make_unique has handed the
\* address out again) of the last shape deleted while it was in
\* playerInsideColShapes_, until the end of the first tick that starts
\* after the delete ("new": that tick has not started, "due": it is running).
NoneGone == [id |-> "", ptr |-> 0, stage |-> "none"]

\* A step that makes no QueueEvent2 call.
NoEvent == events' = <<>> /\ UNCHANGED unmatched

\* unmatched after the QueueEvent2 calls evs, in their order: an enter event
\* adds its id, a leave event removes it.
RECURSIVE After(_, _)
After(evs, open) ==
    IF evs = <<>> THEN open
    ELSE After(Tail(evs),
               IF Head(evs).name = "onPlayerEnterColshape"
               THEN open \cup {Head(evs).id}
               ELSE open \ {Head(evs).id})

----------------------------------------------------------------------------
(* ColShapeManager: private helpers *)

\* If the bounding box is huge, treat the shape as infinite.
MaybeMarkInfinite(shape) ==
    LET width == shape.maxX - shape.minX
        height == shape.maxY - shape.minY
    IN  IF width >= kAutoInfiniteThreshold \/ height >= kAutoInfiniteThreshold
        THEN [shape EXCEPT !.infinite = TRUE]
        ELSE shape

\* GridCells with an axis of zero extent visiting no cell.
GridCells_noDegenerate(shape) ==
    LET startCx == CellOf(shape.minX)
        endCx == CellOf(shape.maxX)
        startCy == CellOf(shape.minY)
        endCy == CellOf(shape.maxY)
        nx == IF shape.maxX = shape.minX THEN 0 ELSE Max(0, endCx - startCx + 1)
        ny == IF shape.maxY = shape.minY THEN 0 ELSE Max(0, endCy - startCy + 1)
    IN  [i \in 1..(nx * ny) |-> <<startCx + ((i - 1) \div ny), startCy + ((i - 1) % ny)>>]

\* GridCells with both loops stopping one cell early (cx < endCx, cy < endCy).
GridCells_exclusive(shape) ==
    LET startCx == CellOf(shape.minX)
        endCx == CellOf(shape.maxX)
        startCy == CellOf(shape.minY)
        endCy == CellOf(shape.maxY)
        nx == Max(0, endCx - startCx)
        ny == Max(0, endCy - startCy)
    IN  [i \in 1..(nx * ny) |-> <<startCx + ((i - 1) \div ny), startCy + ((i - 1) % ny)>>]

\* The cells AddToGrid visits, in the order of its two nested loops.
GridCells(shape) ==
    LET startCx == CellOf(shape.minX)
        endCx == CellOf(shape.maxX)
        startCy == CellOf(shape.minY)
        endCy == CellOf(shape.maxY)
        nx == Max(0, endCx - startCx + 1)
        ny == Max(0, endCy - startCy + 1)
    IN  [i \in 1..(nx * ny) |-> <<startCx + ((i - 1) \div ny), startCy + ((i - 1) % ny)>>]

SeqRange(s) == {s[i] : i \in DOMAIN s}

\* grid_ after AddToGrid(ptr): grid_[key].insert(shape) for every visited cell.
AddToGrid(g, ptr, cells) ==
    [key \in (DOMAIN g) \cup SeqRange(cells) |->
        IF key \in SeqRange(cells)
        THEN (IF key \in DOMAIN g THEN g[key] ELSE {}) \cup {ptr}
        ELSE g[key]]

\* The shapes registered in the cell of pos.
GetColShapesForPosition(g, pos) ==
    LET key == <<CellOf(pos.x), CellOf(pos.y)>>
    IN  IF key \in DOMAIN g THEN g[key] ELSE {}

\* IsPointInColShape without the swap of bottomZ and topZ for a negative height.
IsPointInColShape_noSwap(p, shape) ==
    CASE shape.type = "Circle" ->
            LET dx == p.x - shape.pos1.x
                dy == p.y - shape.pos1.y
            IN  (dx * dx + dy * dy) <= (shape.radius * shape.radius)
      [] shape.type = "Cube" ->
            LET minX == Min(shape.pos1.x, shape.pos2.x)
                maxX == Max(shape.pos1.x, shape.pos2.x)
                minY == Min(shape.pos1.y, shape.pos2.y)
                maxY == Max(shape.pos1.y, shape.pos2.y)
                minZ == Min(shape.pos1.z, shape.pos2.z)
                maxZ == Max(shape.pos1.z, shape.pos2.z)
            IN  p.x >= minX /\ p.x <= maxX /\ p.y >= minY /\ p.y <= maxY
                /\ p.z >= minZ /\ p.z <= maxZ
      [] shape.type = "Cylinder" ->
            LET dx == p.x - shape.pos1.x
                dy == p.y - shape.pos1.y
                z1 == shape.pos1.z
                z2 == shape.pos1.z + shape.height
                bottomZ == z1
                topZ == z2
            IN  IF (dx * dx + dy * dy) > (shape.radius * shape.radius)
                THEN FALSE
                ELSE p.z >= bottomZ /\ p.z <= topZ
      [] shape.type = "Rectangle" ->
            LET minX == Min(shape.pos1.x, shape.pos2.x)
                maxX == Max(shape.pos1.x, shape.pos2.x)
                minY == Min(shape.pos1.y, shape.pos2.y)
                maxY == Max(shape.pos1.y, shape.pos2.y)
                z1 == shape.pos1.z
                z2 == shape.pos1.z + shape.height
                bottomZ == z1
                topZ == z2
                inside2D == p.x >= minX /\ p.x <= maxX /\ p.y >= minY /\ p.y <= maxY
                insideZ == p.z >= bottomZ /\ p.z <= topZ
            IN  inside2D /\ insideZ
      [] shape.type = "Sphere" ->
            LET dx == p.x - shape.pos1.x
                dy == p.y - shape.pos1.y
                dz == p.z - shape.pos1.z
                distSq == dx * dx + dy * dy + dz * dz
                rSq == shape.radius * shape.radius
            IN  distSq <= rSq
      [] OTHER -> FALSE

IsPointInColShape(p, shape) ==
    CASE shape.type = "Circle" ->
            LET dx == p.x - shape.pos1.x
                dy == p.y - shape.pos1.y
            IN  (dx * dx + dy * dy) <= (shape.radius * shape.radius)
      [] shape.type = "Cube" ->
            LET minX == Min(shape.pos1.x, shape.pos2.x)
                maxX == Max(shape.pos1.x, shape.pos2.x)
                minY == Min(shape.pos1.y, shape.pos2.y)
                maxY == Max(shape.pos1.y, shape.pos2.y)
                minZ == Min(shape.pos1.z, shape.pos2.z)
                maxZ == Max(shape.pos1.z, shape.pos2.z)
            IN  p.x >= minX /\ p.x <= maxX /\ p.y >= minY /\ p.y <= maxY
                /\ p.z >= minZ /\ p.z <= maxZ
      [] shape.type = "Cylinder" ->
            LET dx == p.x - shape.pos1.x
                dy == p.y - shape.pos1.y
                z1 == shape.pos1.z
                z2 == shape.pos1.z + shape.height
                bottomZ == IF z2 < z1 THEN z2 ELSE z1
                topZ == IF z2 < z1 THEN z1 ELSE z2
            IN  IF (dx * dx + dy * dy) > (shape.radius * shape.radius)
                THEN FALSE
                ELSE p.z >= bottomZ /\ p.z <= topZ
      [] shape.type = "Rectangle" ->
            LET minX == Min(shape.pos1.x, shape.pos2.x)
                maxX == Max(shape.pos1.x, shape.pos2.x)
                minY == Min(shape.pos1.y, shape.pos2.y)
                maxY == Max(shape.pos1.y, shape.pos2.y)
                z1 == shape.pos1.z
                z2 == shape.pos1.z + shape.height
                bottomZ == IF z2 < z1 THEN z2 ELSE z1
                topZ == IF z2 < z1 THEN z1 ELSE z2
                inside2D == p.x >= minX /\ p.x <= maxX /\ p.y >= minY /\ p.y <= maxY
                insideZ == p.z >= bottomZ /\ p.z <= topZ
            IN  inside2D /\ insideZ
      [] shape.type = "Sphere" ->
            LET dx == p.x - shape.pos1.x
                dy == p.y - shape.pos1.y
                dz == p.z - shape.pos1.z
                distSq == dx * dx + dy * dy + dz * dz
                rSq == shape.radius * shape.radius
            IN  distSq <= rSq
      [] OTHER -> FALSE

----------------------------------------------------------------------------
(* ColShapeManager: create and delete *)

\* The fields every Create* fills in before MaybeMarkInfinite.
NewShape(colShapeId, type, pos1, pos2, radius, height, infinite, minX, maxX, minY, maxY) ==
    [id |-> colShapeId, type |-> type, pos1 |-> pos1, pos2 |-> pos2,
     radius |-> radius, height |-> height, infinite |-> infinite,
     minX |-> minX, maxX |-> maxX, minY |-> minY, maxY |-> maxY,
     occupiedCells |-> <<>>]

\* The addresses some pointer of the program (or of the history) holds.
Referenced ==
    UNION {grid_[key] : key \in DOMAIN grid_} \cup infiniteShapes_
    \cup playerInsideColShapes_ \cup currentInside \cup newlyEntered \cup newlyLeft
    \cup previousInside \cup {gone.ptr}

\* The addresses make_unique<ColShape>() can return: any address that holds
\* no live ColShape.  The addresses nothing refers to are interchangeable, so
\* the lowest stands for them all; an address a stale pointer still holds is
\* a different outcome and each is offered.
Allocatable ==
    LET free == Addr \ DOMAIN heap
        fresh == free \ Referenced
    IN  (free \cap Referenced)
        \cup {a \in fresh : \A b \in fresh : a <= b}

\* Emplace with the new shape put in the "player inside" set at once.
Emplace_inside(colShapeId, shape0) ==
    \E rawPtr \in Allocatable :
        LET shape == MaybeMarkInfinite(shape0)
            cells == GridCells(shape)
            stored == IF shape.infinite THEN shape
                      ELSE [shape EXCEPT !.occupiedCells = cells]
        IN  /\ heap' = [a \in (DOMAIN heap) \cup {rawPtr} |->
                            IF a = rawPtr THEN stored ELSE heap[a]]
            /\ colShapes_' = [i \in (DOMAIN colShapes_) \cup {colShapeId} |->
                            IF i = colShapeId THEN rawPtr ELSE colShapes_[i]]
            /\ IF ~shape.infinite
               THEN /\ grid_' = AddToGrid(grid_, rawPtr, cells)
                    /\ UNCHANGED infiniteShapes_
               ELSE /\ infiniteShapes_' = infiniteShapes_ \cup {rawPtr}
                    /\ UNCHANGED grid_
            /\ gone' = IF gone.ptr = rawPtr THEN [gone EXCEPT !.ptr = 0] ELSE gone
            /\ last' = [op |-> "Create", id |-> colShapeId, ret |-> TRUE]
            /\ NoEvent
            /\ playerInsideColShapes_' = playerInsideColShapes_ \cup {rawPtr}

\* The tail common to every Create*: MaybeMarkInfinite, emplace into
\* colShapes_, then AddToGrid or infiniteShapes_.insert.
Emplace(colShapeId, shape0) ==
    \E rawPtr \in Allocatable :
        LET shape == MaybeMarkInfinite(shape0)
            cells == GridCells(shape)
            stored == IF shape.infinite THEN shape
                      ELSE [shape EXCEPT !.occupiedCells = cells]
        IN  /\ heap' = [a \in (DOMAIN heap) \cup {rawPtr} |->
                            IF a = rawPtr THEN stored ELSE heap[a]]
            /\ colShapes_' = [i \in (DOMAIN colShapes_) \cup {colShapeId} |->
                            IF i = colShapeId THEN rawPtr ELSE colShapes_[i]]
            /\ IF ~shape.infinite
               THEN /\ grid_' = AddToGrid(grid_, rawPtr, cells)
                    /\ UNCHANGED infiniteShapes_
               ELSE /\ infiniteShapes_' = infiniteShapes_ \cup {rawPtr}
                    /\ UNCHANGED grid_
            /\ gone' = IF gone.ptr = rawPtr THEN [gone EXCEPT !.ptr = 0] ELSE gone
            /\ last' = [op |-> "Create", id |-> colShapeId, ret |-> TRUE]
            /\ NoEvent
            /\ UNCHANGED playerInsideColShapes_

\* "ID already taken": return false.
IdTaken(colShapeId) ==
    /\ last' = [op |-> "Create", id |-> colShapeId, ret |-> FALSE]
    /\ NoEvent
    /\ UNCHANGED <<shared, gone>>

\* CreateCircle without the "ID already taken" test.
CreateCircle_overwrite(colShapeId, center, radius, infinite) ==
    Emplace(colShapeId,
        NewShape(colShapeId, "Circle", center, Vec(0, 0, 0), radius, 0, infinite,
                 center.x - radius, center.x + radius,
                 center.y - radius, center.y + radius))

CreateCircle(colShapeId, center, radius, infinite) ==
    IF colShapeId \in DOMAIN colShapes_
    THEN IdTaken(colShapeId)
    ELSE Emplace(colShapeId,
            NewShape(colShapeId, "Circle", center, Vec(0, 0, 0), radius, 0, infinite,
                     center.x - radius, center.x + radius,
                     center.y - radius, center.y + radius))

CreateCube(colShapeId, pos1, pos2, infinite) ==
    IF colShapeId \in DOMAIN colShapes_
    THEN IdTaken(colShapeId)
    ELSE Emplace(colShapeId,
            NewShape(colShapeId, "Cube", pos1, pos2, 0, 0, infinite,
                     Min(pos1.x, pos2.x), Max(pos1.x, pos2.x),
                     Min(pos1.y, pos2.y), Max(pos1.y, pos2.y)))

CreateCylinder(colShapeId, center, radius, height, infinite) ==
    IF colShapeId \in DOMAIN colShapes_
    THEN IdTaken(colShapeId)
    ELSE Emplace(colShapeId,
            NewShape(colShapeId, "Cylinder", center, Vec(0, 0, 0), radius, height, infinite,
                     center.x - radius, center.x + radius,
                     center.y - radius, center.y + radius))

CreateRectangleZ(colShapeId, x1, y1, x2, y2, bottomZ, height, infinite) ==
    IF colShapeId \in DOMAIN colShapes_
    THEN IdTaken(colShapeId)
    ELSE Emplace(colShapeId,
            NewShape(colShapeId, "Rectangle", Vec(x1, y1, bottomZ), Vec(x2, y2, bottomZ),
                     0, height, infinite,
                     Min(x1, x2), Max(x1, x2), Min(y1, y2), Max(y1, y2)))

CreateSphere(colShapeId, center, radius, infinite) ==
    IF colShapeId \in DOMAIN colShapes_
    THEN IdTaken(colShapeId)
    ELSE Emplace(colShapeId,
            NewShape(colShapeId, "Sphere", center, Vec(0, 0, 0), radius, 0, infinite,
                     center.x - radius, center.x + radius,
                     center.y - radius, center.y + radius))

\* RemoveFromGrid leaving the loop after the first cell of occupiedCells.
RemoveFromGrid_firstCell(g, ptr, cells) ==
    [key \in DOMAIN g |->
        IF cells # <<>> /\ key = cells[1] THEN g[key] \ {ptr} ELSE g[key]]

\* grid_ after erasing ptr from every cell of occupiedCells that grid_ has.
RemoveFromGrid(g, ptr, cells) ==
    [key \in DOMAIN g |-> IF key \in SeqRange(cells) THEN g[key] \ {ptr} ELSE g[key]]

\* DeleteColShape erasing from the "player inside" set before the lookup has
\* been tested: an unknown id empties the set.
DeleteColShape_eraseFirst(colShapeId) ==
    IF colShapeId \notin DOMAIN colShapes_
    THEN /\ last' = [op |-> "Delete", id |-> colShapeId, ret |-> FALSE]
         /\ NoEvent
         /\ playerInsideColShapes_' = {}
         /\ UNCHANGED <<heap, colShapes_, infiniteShapes_, grid_, gone>>
    ELSE LET shapePtr == colShapes_[colShapeId]
         IN  /\ IF heap[shapePtr].infinite
                THEN /\ infiniteShapes_' = infiniteShapes_ \ {shapePtr}
                     /\ UNCHANGED grid_
                ELSE /\ grid_' = RemoveFromGrid(grid_, shapePtr, heap[shapePtr].occupiedCells)
                     /\ UNCHANGED infiniteShapes_
             /\ playerInsideColShapes_' = playerInsideColShapes_ \ {shapePtr}
             /\ colShapes_' = [i \in (DOMAIN colShapes_) \ {colShapeId} |-> colShapes_[i]]
             /\ heap' = [a \in (DOMAIN heap) \ {shapePtr} |-> heap[a]]
             /\ gone' = IF shapePtr \in playerInsideColShapes_
                        THEN [id |-> colShapeId, ptr |-> shapePtr, stage |-> "new"]
                        ELSE gone
             /\ last' = [op |-> "Delete", id |-> colShapeId, ret |-> TRUE]
             /\ NoEvent

DeleteColShape(colShapeId) ==
    IF colShapeId \notin DOMAIN colShapes_
    THEN /\ last' = [op |-> "Delete", id |-> colShapeId, ret |-> FALSE]
         /\ NoEvent
         /\ UNCHANGED <<shared, gone>>
    ELSE LET shapePtr == colShapes_[colShapeId]
         IN  /\ IF heap[shapePtr].infinite
                THEN /\ infiniteShapes_' = infiniteShapes_ \ {shapePtr}
                     /\ UNCHANGED grid_
                ELSE /\ grid_' = RemoveFromGrid(grid_, shapePtr, heap[shapePtr].occupiedCells)
                     /\ UNCHANGED infiniteShapes_
             /\ playerInsideColShapes_' = playerInsideColShapes_ \ {shapePtr}
             /\ colShapes_' = [i \in (DOMAIN colShapes_) \ {colShapeId} |-> colShapes_[i]]
             /\ heap' = [a \in (DOMAIN heap) \ {shapePtr} |-> heap[a]]
             /\ gone' = IF shapePtr \in playerInsideColShapes_
                        THEN [id |-> colShapeId, ptr |-> shapePtr, stage |-> "new"]
                        ELSE gone
             /\ last' = [op |-> "Delete", id |-> colShapeId, ret |-> TRUE]
             /\ NoEvent

----------------------------------------------------------------------------
(* ColShapeManager::Update, one action per phase.  The source takes no     *)
(* lock, so a native handler can run between any two phases (and inside    *)
(* one; the interleavings kept here are those at the phase boundaries).    *)

Ticking == [op |-> "Update", id |-> "", ret |-> TRUE]

\* Run's test of while (!shutdown_): sleep and call Update, or leave the loop.
\* The test that follows a call of Update is taken with Update's return.
LoopTest == IF shutdown_ THEN "exited" ELSE "sleep"

\* A call of Update that begins when shutdown_ is already set.
Late == IF shutdown_ THEN lateTicks + 1 ELSE lateTicks

\* The thread Start() created enters Run and makes its first test.
Run ==
    /\ pc = "start"
    /\ pc' = LoopTest
    /\ last' = [op |-> "Run", id |-> "", ret |-> ~shutdown_]
    /\ NoEvent
    /\ UNCHANGED <<shared, locals, previousInside, gone, thread>>

\* UpdateSkip with the "player inside" set cleared before the return.
UpdateSkip_clear ==
    /\ pc = "sleep"
    /\ pc' = LoopTest
    /\ lateTicks' = Late
    /\ playerInsideColShapes_' = {}
    /\ last' = [op |-> "Update", id |-> "", ret |-> FALSE]
    /\ NoEvent
    /\ UNCHANGED <<heap, colShapes_, infiniteShapes_, grid_, locals, previousInside, gone,
                   shutdown_, joining>>

\* playerPedId == 0: return before anything is read.
UpdateSkip ==
    /\ pc = "sleep"
    /\ pc' = LoopTest
    /\ lateTicks' = Late
    /\ last' = [op |-> "Update", id |-> "", ret |-> FALSE]
    /\ NoEvent
    /\ UNCHANGED <<shared, locals, previousInside, gone, shutdown_, joining>>

\* Sample the position, then fill currentInside: the shapes of the
\* position's cell, then every infinite shape, each tested with
\* IsPointInColShape.
UpdateScan ==
    /\ pc = "sleep"
    /\ \E pos \in Points :
        /\ playerPos' = pos
        /\ currentInside' =
              {ptr \in GetColShapesForPosition(grid_, pos) : IsPointInColShape(pos, heap[ptr])}
              \cup {infShape \in infiniteShapes_ : IsPointInColShape(pos, heap[infShape])}
    /\ pc' = "diff"
    /\ previousInside' = playerInsideColShapes_
    /\ gone' = IF gone.stage = "new" THEN [gone EXCEPT !.stage = "due"] ELSE gone
    /\ last' = Ticking
    /\ NoEvent
    /\ lateTicks' = Late
    /\ UNCHANGED <<shared, newlyEntered, newlyLeft, shutdown_, joining>>

\* Fill newlyEntered and newlyLeft, then
\* playerInsideColShapes_ = std::move(currentInside).  The vectors are kept
\* as sets; their order, the iteration order of an unordered_set, is chosen
\* when the events are queued.
UpdateDiff ==
    /\ pc = "diff"
    /\ newlyEntered' = currentInside \ playerInsideColShapes_
    /\ newlyLeft' = playerInsideColShapes_ \ currentInside
    /\ playerInsideColShapes_' = currentInside
    /\ currentInside' = {}
    /\ playerPos' = Vec(0, 0, 0)
    /\ previousInside' = {}
    /\ pc' = "emit"
    /\ last' = Ticking
    /\ NoEvent
    /\ UNCHANGED <<heap, colShapes_, infiniteShapes_, grid_, gone, thread>>

\* The outcomes of reading ptr->id: the id of the ColShape at ptr, or
\* anything when ptr no longer points to a ColShape.
ReadId(ptr) ==
    IF ptr \in DOMAIN heap THEN {heap[ptr].id} ELSE Ids \cup {Garbage}

\* The sequences of QueueEvent2 calls a loop over ptrs can make.
Queued(name, ptrs) ==
    LET n == Cardinality(ptrs)
    IN  {[i \in 1..n |-> [name |-> name, id |-> oi[2][i], shape |-> oi[1][i]]] :
            oi \in {c \in [1..n -> ptrs] \X [1..n -> Ids \cup {Garbage}] :
                      /\ \A i, j \in 1..n : i # j => c[1][i] # c[1][j]
                      /\ \A i \in 1..n : c[2][i] \in ReadId(c[1][i])}}

\* UpdateEmit with the loop over newlyLeft ahead of the loop over newlyEntered.
UpdateEmit_leavesFirst ==
    /\ pc = "emit"
    /\ \E qe \in Queued("onPlayerEnterColshape", newlyEntered),
          ql \in Queued("onPlayerLeaveColshape", newlyLeft) :
          events' = ql \o qe
    /\ UNCHANGED unmatched
    /\ pc' = LoopTest
    /\ newlyEntered' = {}
    /\ newlyLeft' = {}
    /\ gone' = IF gone.stage = "due" THEN NoneGone ELSE gone
    /\ last' = Ticking
    /\ UNCHANGED <<shared, playerPos, currentInside, previousInside, thread>>

\* Queue the enter events, then the leave events; Update returns, its
\* locals are gone, and Run tests shutdown_ again.
UpdateEmit ==
    /\ pc = "emit"
    /\ \E qe \in Queued("onPlayerEnterColshape", newlyEntered),
          ql \in Queued("onPlayerLeaveColshape", newlyLeft) :
          events' = qe \o ql
    /\ UNCHANGED unmatched
    /\ pc' = LoopTest
    /\ newlyEntered' = {}
    /\ newlyLeft' = {}
    /\ gone' = IF gone.stage = "due" THEN NoneGone ELSE gone
    /\ last' = Ticking
    /\ UNCHANGED <<shared, playerPos, currentInside, previousInside, thread>>

\* UpdateEmit with the history of the events kept: the same calls, and
\* unmatched brought up to date with them.
UpdateEmitTracked ==
    /\ pc = "emit"
    /\ \E qe \in Queued("onPlayerEnterColshape", newlyEntered),
          ql \in Queued("onPlayerLeaveColshape", newlyLeft) :
          /\ events' = qe \o ql
          /\ unmatched' = After(qe \o ql, unmatched)
    /\ pc' = LoopTest
    /\ newlyEntered' = {}
    /\ newlyLeft' = {}
    /\ gone' = IF gone.stage = "due" THEN NoneGone ELSE gone
    /\ last' = Ticking
    /\ UNCHANGED <<shared, playerPos, currentInside, previousInside, thread>>

----------------------------------------------------------------------------
(* The native handlers; each passes infinite = false *)

tick == <<pc, playerPos, currentInside, newlyEntered, newlyLeft, previousInside>>

COLSHAPE_CIRCLE ==
    /\ \E colShapeId \in MainIds, center \in Centers, radius \in Radii :
          CreateCircle(colShapeId, center, radius, FALSE)
    /\ UNCHANGED <<tick, thread>>

COLSHAPE_CUBE ==
    /\ \E colShapeId \in Ids, pos1 \in CubeCorner1, pos2 \in CubeCorner2 :
          CreateCube(colShapeId, pos1, pos2, FALSE)
    /\ UNCHANGED <<tick, thread>>

COLSHAPE_CYLINDER ==
    /\ \E colShapeId \in MainIds, center \in Centers, radius \in CylinderRadii, height \in Heights :
          CreateCylinder(colShapeId, center, radius, height, FALSE)
    /\ UNCHANGED <<tick, thread>>

COLSHAPE_RECTANGLE ==
    /\ \E colShapeId \in MainIds, x2 \in RectX2, height \in Heights :
          CreateRectangleZ(colShapeId, 500, 500, x2, 1500, 0, height, FALSE)
    /\ UNCHANGED <<tick, thread>>

COLSHAPE_SPHERE ==
    /\ \E colShapeId \in MainIds, center \in Centers, radius \in SphereRadii :
          CreateSphere(colShapeId, center, radius, FALSE)
    /\ UNCHANGED <<tick, thread>>

COLSHAPE_DELETE ==
    /\ \E colShapeId \in Ids : DeleteColShape(colShapeId)
    /\ UNCHANGED <<tick, thread>>

----------------------------------------------------------------------------
(* ColShapeThread::Shutdown, called by a host thread *)

\* shutdown_ = true; then, the thread being joinable, thread_.join() begins.
Shutdown ==
    /\ joining = "idle"
    /\ shutdown_' = TRUE
    /\ joining' = "join"
    /\ last' = [op |-> "Shutdown", id |-> "", ret |-> FALSE]
    /\ NoEvent
    /\ UNCHANGED <<shared, tick, gone, lateTicks>>

\* ShutdownReturn without the wait of thread_.join().
ShutdownReturn_noJoin ==
    /\ joining = "join"
    /\ joining' = "returned"
    /\ last' = [op |-> "Shutdown", id |-> "", ret |-> TRUE]
    /\ NoEvent
    /\ UNCHANGED <<shared, tick, gone, shutdown_, lateTicks>>

\* thread_.join() returns once Run has returned, and Shutdown returns.
ShutdownReturn ==
    /\ joining = "join"
    /\ pc = "exited"
    /\ joining' = "returned"
    /\ last' = [op |-> "Shutdown", id |-> "", ret |-> TRUE]
    /\ NoEvent
    /\ UNCHANGED <<shared, tick, gone, shutdown_, lateTicks>>

----------------------------------------------------------------------------

Init ==
    /\ heap = <<>>
    /\ colShapes_ = <<>>
    /\ infiniteShapes_ = {}
    /\ grid_ = <<>>
    /\ playerInsideColShapes_ = {}
    /\ pc = "start"
    /\ playerPos = Vec(0, 0, 0)
    /\ currentInside = {}
    /\ newlyEntered = {}
    /\ newlyLeft = {}
    /\ events = <<>>
    /\ last = [op |-> "InitFunction", id |-> "", ret |-> TRUE]
    /\ shutdown_ = FALSE
    /\ joining = "idle"
    /\ previousInside = {}
    /\ gone = NoneGone
    /\ lateTicks = 0
    /\ unmatched = {}

Next ==
    \/ Run
    \/ COLSHAPE_CIRCLE
    \/ COLSHAPE_CUBE
    \/ COLSHAPE_CYLINDER
    \/ COLSHAPE_RECTANGLE
    \/ COLSHAPE_SPHERE
    \/ COLSHAPE_DELETE
    \/ UpdateSkip
    \/ UpdateScan
    \/ UpdateDiff
    \/ UpdateEmit

Spec == Init /\ [][Next]_vars

\* The program with the history of its events kept in unmatched.
NextEvents ==
    \/ Run
    \/ COLSHAPE_CIRCLE
    \/ COLSHAPE_CUBE
    \/ COLSHAPE_CYLINDER
    \/ COLSHAPE_RECTANGLE
    \/ COLSHAPE_SPHERE
    \/ COLSHAPE_DELETE
    \/ UpdateSkip
    \/ UpdateScan
    \/ UpdateDiff
    \/ UpdateEmitTracked

SpecEvents == Init /\ [][NextEvents]_vars

\* The program with a host that calls Shutdown.  The operating system runs
\* the started thread, sleep_for returns, and join returns once the thread
\* has: each step of Run and the return of Shutdown is weakly fair.
NextShutdown ==
    \/ Next
    \/ Shutdown
    \/ ShutdownReturn

SpecShutdown ==
    /\ Init
    /\ [][NextShutdown]_vars
    /\ WF_vars(Run)
    /\ WF_vars(UpdateSkip \/ UpdateScan)
    /\ WF_vars(UpdateDiff)
    /\ WF_vars(UpdateEmit)
    /\ WF_vars(ShutdownReturn)

----------------------------------------------------------------------------
(* The geometry on its own: one script thread that creates shapes with a   *)
(* wider choice of arguments, deletes them, and has IsPointInColShape       *)
(* evaluated, as Update does, for points around them.                      *)

\* Largest magnitude of the height argument.
MaxHeight == 3
SignedHeights == (0 - MaxHeight)..MaxHeight
BaseZs == {0, 5}
\* One unit below the lowest and above the highest Z bound of any shape.
TestZs == (0 - MaxHeight - 1)..(5 + MaxHeight + 1)
TestXYs == {<<1000, 1000>>, <<5000, 5000>>}
Corners == {1500, 2000}
ZeroRadii == {0}

GeomCreate ==
    /\ \/ \E b \in BaseZs, height \in SignedHeights :
              CreateCylinder("zone1", Vec(1000, 1000, b), 500, height, FALSE)
       \/ \E b \in BaseZs, height \in SignedHeights :
              CreateRectangleZ("zone1", 500, 500, 1500, 1500, b, height, FALSE)
       \/ \E x1 \in Corners, y1 \in Corners, x2 \in Corners, y2 \in Corners :
              CreateCube("zone1", Vec(x1, y1, 0), Vec(x2, y2, 0), FALSE)
       \/ \E radius \in ZeroRadii : CreateCircle("zone1", Vec(1000, 1000, 0), radius, FALSE)
       \/ \E radius \in ZeroRadii : CreateSphere("zone1", Vec(1000, 1000, 0), radius, FALSE)
    /\ UNCHANGED <<tick, thread>>

GeomDelete ==
    /\ DeleteColShape("zone1")
    /\ UNCHANGED <<tick, thread>>

\* IsPointInColShape(playerPos, *shape) for a live shape, its result kept in
\* last.ret.
GeomTest ==
    /\ \E ptr \in DOMAIN heap, xy \in TestXYs, z \in TestZs :
          /\ playerPos' = Vec(xy[1], xy[2], z)
          /\ last' = [op |-> "IsPointInColShape", id |-> heap[ptr].id,
                      ret |-> IsPointInColShape(Vec(xy[1], xy[2], z), heap[ptr])]
    /\ NoEvent
    /\ UNCHANGED <<shared, pc, currentInside, newlyEntered, newlyLeft, previousInside,
                   gone, thread>>

NextGeometry ==
    \/ GeomCreate
    \/ GeomDelete
    \/ GeomTest

SpecGeometry == Init /\ [][NextGeometry]_vars

----------------------------------------------------------------------------
(* Properties *)

Natives == {"Create", "Delete"}
Registered == {colShapes_[i] : i \in DOMAIN colShapes_}
InGrid(ptr) == \E key \in DOMAIN grid_ : ptr \in grid_[key]

\* The cells the bounding box of shape spans (N by M cells in all), and one
\* point in a cell.
SpannedCells(shape) ==
    (CellOf(shape.minX)..CellOf(shape.maxX)) \X (CellOf(shape.minY)..CellOf(shape.maxY))
Probe(cell) == Vec(cell[1] * cellSize + 500, cell[2] * cellSize + 500, 0)

\* A step of a native that finds its id registered / not registered.
CallOnKnown(op) == last'.op = op /\ last'.id \in DOMAIN colShapes_
CallOnUnknown(op) == last'.op = op /\ last'.id \notin DOMAIN colShapes_

\* C1: a create call whose identifier is already registered returns failure
\* and changes neither the registry, the shapes (kind, parameters, infinite
\* flag, occupied cells), the grid, the infinite set nor the membership set.
C1_DuplicateCreateFails ==
    [][CallOnKnown("Create") =>
          /\ last'.ret = FALSE
          /\ UNCHANGED <<heap, colShapes_, grid_, infiniteShapes_, playerInsideColShapes_>>]_vars

\* A create has just failed on an id that a rectangle holds, while the
\* player is inside that rectangle.
C1_Witness ==
    /\ last = [op |-> "Create", id |-> "zone1", ret |-> FALSE]
    /\ "zone1" \in DOMAIN colShapes_
    /\ heap[colShapes_["zone1"]].type = "Rectangle"
    /\ colShapes_["zone1"] \in playerInsideColShapes_

\* The events evs holds under name: exactly one for each shape of ptrs,
\* carrying that shape's identifier.
OneEventEach(name, ptrs, evs) ==
    LET idx == {i \in DOMAIN evs : evs[i].name = name}
    IN  /\ Cardinality(idx) = Cardinality(ptrs)
        /\ \A ptr \in ptrs :
              /\ ptr \in DOMAIN heap
              /\ \E i \in idx : evs[i].shape = ptr /\ evs[i].id = heap[ptr].id

\* C2: a tick that is not skipped computes entered = currentInside minus
\* previousInside and left = previousInside minus currentInside, where
\* previousInside is the membership set before the tick, replaces the
\* membership set by currentInside, and emits exactly one enter event per
\* entered shape and one leave event per left shape, each carrying the
\* shape's identifier, and nothing else.
C2_TickDiff ==
    /\ [][(pc = "diff" /\ pc' = "emit") =>
            /\ newlyEntered' = currentInside \ previousInside
            /\ newlyLeft' = previousInside \ currentInside
            /\ playerInsideColShapes_' = currentInside]_vars
    /\ [][(pc = "emit" /\ pc' = "sleep") =>
            /\ Len(events') = Cardinality(newlyEntered) + Cardinality(newlyLeft)
            /\ OneEventEach("onPlayerEnterColshape", newlyEntered, events')
            /\ OneEventEach("onPlayerLeaveColshape", newlyLeft, events')]_vars

\* The live shapes whose containment predicate holds for point p.
Containing(p) == {ptr \in DOMAIN heap : IsPointInColShape(p, heap[ptr])}

\* C3: the shapes a tick finds for the sampled point P (its cell's bucket
\* plus the infinite set, filtered by the predicate) are exactly the live
\* shapes whose predicate holds for P, and the tick leaves the membership
\* set equal to exactly those shapes.
C3_ExactMembership ==
    /\ [][(pc = "sleep" /\ pc' = "diff") => currentInside' = Containing(playerPos')]_vars
    /\ [][(pc = "diff" /\ pc' = "emit") => playerInsideColShapes_' = Containing(playerPos)]_vars

\* C4: no create or delete runs while a tick is between its first read of
\* the shared state and its last use of a shape reference.
C4_MutualExclusion ==
    [][last'.op \in Natives => pc \notin {"diff", "emit"}]_vars

\* C5: every shape reference held by a grid bucket, the infinite set, the
\* membership set or a tick's entered/left lists, and every reference an
\* event was emitted through, is to a shape that is in the registry.
C5_NoDanglingReference ==
    /\ UNION {grid_[key] : key \in DOMAIN grid_} \subseteq Registered
    /\ infiniteShapes_ \subseteq Registered
    /\ playerInsideColShapes_ \subseteq Registered
    /\ newlyEntered \cup newlyLeft \subseteq Registered
    /\ \A i \in DOMAIN events : events[i].shape \in Registered

\* C6: a delete of a shape that is in the membership set removes it from the
\* set in the same step, and no leave event is emitted for that shape
\* afterwards (checked up to the end of the first tick that starts after the
\* delete, for as long as the shape's storage has not been handed out again).
C6_NoLeaveAfterDelete ==
    /\ [][(CallOnKnown("Delete") /\ last'.ret) =>
            colShapes_[last'.id] \notin playerInsideColShapes_']_vars
    /\ [][\A i \in DOMAIN events' :
            (events'[i].name = "onPlayerLeaveColshape" /\ gone.ptr # 0)
                => events'[i].shape # gone.ptr]_vars

\* C7: a shape that was inside at the last tick and is then deleted is not in
\* the containment set of the next tick, and that tick emits exactly one
\* leave event carrying its identifier.
C7_LeftOnceAfterDelete ==
    /\ [][(pc = "sleep" /\ pc' = "diff" /\ gone'.stage = "due" /\ gone'.ptr # 0) =>
            gone'.ptr \notin currentInside']_vars
    /\ [][(pc = "emit" /\ pc' = "sleep" /\ gone.stage = "due") =>
            Cardinality({i \in DOMAIN events' :
                            /\ events'[i].name = "onPlayerLeaveColshape"
                            /\ events'[i].id = gone.id}) = 1]_vars

\* C8: every live shape is either in the grid, not in the infinite set and
\* with a non-empty occupied-cells list, or in the infinite set, in no grid
\* bucket and with an empty occupied-cells list.
C8_GridXorInfinite ==
    \A ptr \in Registered :
        \/ /\ InGrid(ptr)
           /\ ptr \notin infiniteShapes_
           /\ heap[ptr].occupiedCells # <<>>
        \/ /\ ptr \in infiniteShapes_
           /\ ~InGrid(ptr)
           /\ heap[ptr].occupiedCells = <<>>

\* C9: a delete call with an identifier that is not registered returns
\* failure, changes neither the registry, the shapes, the grid, the infinite
\* set nor the membership set, and emits no event.
C9_DeleteUnknownFails ==
    [][CallOnUnknown("Delete") =>
          /\ last'.ret = FALSE
          /\ events' = <<>>
          /\ UNCHANGED <<heap, colShapes_, grid_, infiniteShapes_, playerInsideColShapes_>>]_vars

\* A delete of "" has just failed while "zone1" is a shape in four grid
\* cells that the player is inside.
C9_Witness ==
    /\ last = [op |-> "Delete", id |-> "", ret |-> FALSE]
    /\ "zone1" \in DOMAIN colShapes_
    /\ Len(heap[colShapes_["zone1"]].occupiedCells) = 4
    /\ colShapes_["zone1"] \in playerInsideColShapes_

\* C10: a non-infinite shape is returned by the near-point query for a point
\* in every cell its bounding box spans, and after a successful delete no
\* bucket contains it, so the query returns it from no point.
C10_GridDiscoverable ==
    /\ [](\A ptr \in Registered :
            ~heap[ptr].infinite =>
                \A cell \in SpannedCells(heap[ptr]) :
                    ptr \in GetColShapesForPosition(grid_, Probe(cell)))
    /\ [][(CallOnKnown("Delete") /\ last'.ret) =>
            LET ptr == colShapes_[last'.id]
            IN  /\ ~(\E key \in DOMAIN grid_' : ptr \in grid_'[key])
                /\ \A cell \in SpannedCells(heap[ptr]) :
                      ptr \notin GetColShapesForPosition(grid_', Probe(cell))]_vars

\* A shape whose bounding box spans 2 by 2 cells is live and the query
\* returns it from a point in each of the four.
C10_Witness ==
    \E ptr \in Registered :
        /\ ~heap[ptr].infinite
        /\ Cardinality(SpannedCells(heap[ptr])) = 4
        /\ \A cell \in SpannedCells(heap[ptr]) :
              ptr \in GetColShapesForPosition(grid_, Probe(cell))

\* The XY bounding box of shape reaches the promotion threshold.
AtThreshold(shape) ==
    \/ shape.maxX - shape.minX >= kAutoInfiniteThreshold
    \/ shape.maxY - shape.minY >= kAutoInfiniteThreshold

\* C11: a shape whose bounding box is at or above the threshold on one axis
\* is infinite although no native requests it: it is in the infinite set and
\* in no grid bucket, every non-skipped tick tests its predicate against the
\* sampled point, and its infinite flag never changes; a shape below the
\* threshold on both axes is not infinite and is in the grid.
C11_InfinitePromotion ==
    /\ [](\A ptr \in Registered :
            IF AtThreshold(heap[ptr])
            THEN heap[ptr].infinite /\ ptr \in infiniteShapes_ /\ ~InGrid(ptr)
            ELSE ~heap[ptr].infinite /\ ptr \notin infiniteShapes_ /\ InGrid(ptr))
    /\ [][(pc = "sleep" /\ pc' = "diff") =>
            \A ptr \in Registered :
                heap[ptr].infinite =>
                    (ptr \in currentInside' <=> IsPointInColShape(playerPos', heap[ptr]))]_vars
    /\ [][\A ptr \in (DOMAIN heap) \cap (DOMAIN heap') :
            heap'[ptr].infinite = heap[ptr].infinite]_vars

\* C12: a tick that finds no player ped is skipped: it changes neither the
\* registry, the shapes, the grid, the infinite set nor the membership set
\* and emits no event, so the next tick that is not skipped diffs against
\* the membership set as it stood.
C12_SkippedTick ==
    [][(last'.op = "Update" /\ ~last'.ret) =>
          /\ events' = <<>>
          /\ UNCHANGED <<heap, colShapes_, grid_, infiniteShapes_, playerInsideColShapes_>>
          /\ UNCHANGED <<playerPos, currentInside, newlyEntered, newlyLeft>>]_vars

\* A tick has just been skipped while the player is inside a live shape.
C12_Witness ==
    /\ last = [op |-> "Update", id |-> "", ret |-> FALSE]
    /\ \E ptr \in Registered : ptr \in playerInsideColShapes_

\* C13: among the events one tick queues, every enter event comes before
\* every leave event.
C13_EntersBeforeLeaves ==
    \A i, j \in DOMAIN events :
        (events[i].name = "onPlayerLeaveColshape" /\ events[j].name = "onPlayerEnterColshape")
            => j < i

\* A tick has queued an enter event for one shape and a leave event for
\* another.
C13_Witness ==
    /\ last = Ticking
    /\ \E i, j \in DOMAIN events :
          /\ events[i].name = "onPlayerEnterColshape"
          /\ events[j].name = "onPlayerLeaveColshape"
          /\ events[i].shape # events[j].shape

\* C14: a create call with the empty identifier returns failure and
\* registers no shape.
C14_EmptyIdRejected ==
    [][(last'.op = "Create" /\ last'.id = "") =>
          /\ last'.ret = FALSE
          /\ UNCHANGED <<heap, colShapes_>>]_vars

\* The grid cells whose bucket holds ptr in grid g.
BucketsOf(g, ptr) == {key \in DOMAIN g : ptr \in g[key]}

\* C15: a successful delete leaves the shape in no grid bucket, not in the
\* infinite set and not in the membership set; a create with an identifier
\* that is not registered (one that was deleted before included) succeeds,
\* and the new shape is in exactly the grid cells of its own bounding box or,
\* if infinite, in the infinite set, and is not in the membership set, no
\* tick having tested it yet.
C15_IdReuse ==
    /\ [][(CallOnKnown("Delete") /\ last'.ret) =>
            LET ptr == colShapes_[last'.id]
            IN  /\ last'.id \notin DOMAIN colShapes_'
                /\ BucketsOf(grid_', ptr) = {}
                /\ ptr \notin infiniteShapes_'
                /\ ptr \notin playerInsideColShapes_']_vars
    /\ [][CallOnUnknown("Create") =>
            /\ last'.ret
            /\ last'.id \in DOMAIN colShapes_'
            /\ LET ptr == colShapes_'[last'.id]
                    shape == heap'[ptr]
               IN  /\ shape.id = last'.id
                   /\ BucketsOf(grid_', ptr) =
                         (IF shape.infinite THEN {} ELSE SpannedCells(shape))
                   /\ ptr \in infiniteShapes_' <=> shape.infinite
                   /\ ptr \notin playerInsideColShapes_']_vars

\* C16: once shutdown_ is set the thread eventually leaves Run, and a
\* Shutdown call that has begun eventually returns, and only after the thread
\* has left Run; Run tests shutdown_ only at its start and after a call of
\* Update has returned, so at most one call of Update begins after the
\* signal and a tick that has reached its diff always goes on to queue its
\* events.
C16_CleanShutdown ==
    /\ shutdown_ ~> (pc = "exited")
    /\ (joining = "join") ~> (joining = "returned")
    /\ [](joining = "returned" => pc = "exited")
    /\ [](lateTicks <= 1)
    /\ [][pc = "diff" => pc' \in {"diff", "emit"}]_vars
    /\ [][(pc = "emit" /\ pc' # "emit") => last' = Ticking]_vars
    /\ [][(pc' = "exited" /\ pc # "exited") => (shutdown_ /\ last'.op \in {"Run", "Update"})]_vars

\* Shutdown has returned after one call of Update that began after the
\* signal and found the player inside a shape.
C16_Witness ==
    /\ joining = "returned"
    /\ pc = "exited"
    /\ lateTicks = 1
    /\ \E ptr \in Registered : ptr \in playerInsideColShapes_

\* The planar part of the predicate of a cylinder or a rectangle.
Footprint(p, shape) ==
    IF shape.type = "Cylinder"
    THEN (p.x - shape.pos1.x) * (p.x - shape.pos1.x)
             + (p.y - shape.pos1.y) * (p.y - shape.pos1.y) <= shape.radius * shape.radius
    ELSE /\ Min(shape.pos1.x, shape.pos2.x) <= p.x /\ p.x <= Max(shape.pos1.x, shape.pos2.x)
         /\ Min(shape.pos1.y, shape.pos2.y) <= p.y /\ p.y <= Max(shape.pos1.y, shape.pos2.y)

\* C17: for a cylinder or a rectangle of base Z b and height h of either
\* sign, the predicate holds for a point exactly when the point is in the
\* planar footprint and min(b, b+h) <= z <= max(b, b+h).
C17_ZInterval ==
    (last.op = "IsPointInColShape" /\ last.id \in DOMAIN colShapes_) =>
        LET shape == heap[colShapes_[last.id]]
            b == shape.pos1.z
            h == shape.height
        IN  shape.type \in {"Cylinder", "Rectangle"} =>
                (last.ret <=> /\ Footprint(playerPos, shape)
                              /\ Min(b, b + h) <= playerPos.z
                              /\ playerPos.z <= Max(b, b + h))

\* The predicate has just held for a point at z = b + h of a rectangle of
\* negative height h.
C17_Witness ==
    /\ last.op = "IsPointInColShape"
    /\ last.ret
    /\ last.id \in DOMAIN colShapes_
    /\ LET shape == heap[colShapes_[last.id]]
       IN  /\ shape.type = "Rectangle"
           /\ shape.height < 0
           /\ playerPos.z = shape.pos1.z + shape.height

\* C18: a non-infinite shape whose bounding box has zero width is in the
\* buckets of one cell column only, one of zero height in those of one cell
\* row only, and one of zero width and height in exactly one bucket, with
\* exactly that cell in its occupied-cells list; a successful delete leaves
\* it in no bucket.
C18_DegenerateBox ==
    /\ [](\A ptr \in Registered :
            LET shape == heap[ptr]
                cells == BucketsOf(grid_, ptr)
            IN  ~shape.infinite =>
                  /\ shape.minX = shape.maxX =>
                        /\ cells # {}
                        /\ \A key \in cells : key[1] = CellOf(shape.minX)
                  /\ shape.minY = shape.maxY =>
                        /\ cells # {}
                        /\ \A key \in cells : key[2] = CellOf(shape.minY)
                  /\ (shape.minX = shape.maxX /\ shape.minY = shape.maxY) =>
                        /\ cells = {<<CellOf(shape.minX), CellOf(shape.minY)>>}
                        /\ shape.occupiedCells = <<<<CellOf(shape.minX), CellOf(shape.minY)>>>>)
    /\ [][(CallOnKnown("Delete") /\ last'.ret) =>
            BucketsOf(grid_', colShapes_[last'.id]) = {}]_vars

\* A cube with two identical corners on a cell border is live and in
\* exactly one bucket.
C18_Witness ==
    \E ptr \in Registered :
        /\ heap[ptr].type = "Cube"
        /\ heap[ptr].pos1 = heap[ptr].pos2
        /\ heap[ptr].minX = 2000
        /\ BucketsOf(grid_, ptr) = {<<2, CellOf(heap[ptr].minY)>>}

\* The events evs, in their order, keep to the alternation when open holds
\* the ids whose last event was an enter.
RECURSIVE Alternates(_, _)
Alternates(evs, open) ==
    IF evs = <<>> THEN TRUE
    ELSE LET e == Head(evs)
         IN  IF e.name = "onPlayerEnterColshape"
             THEN e.id \notin open /\ Alternates(Tail(evs), open \cup {e.id})
             ELSE e.id \in open /\ Alternates(Tail(evs), open \ {e.id})

\* C19: the events carrying one identifier alternate, starting with an
\* enter: no enter event carries an id whose last event was an enter, and no
\* leave event carries an id whose last event was not an enter.
C19_EventsAlternate ==
    [][Alternates(events', unmatched)]_vars

\* C20: the bucket of a grid cell holds a shape exactly when the shape is
\* live, not infinite and lists the cell in occupiedCells; the list of a
\* non-infinite shape is exactly the cells floor(minX/1000)..floor(maxX/1000)
\* by floor(minY/1000)..floor(maxY/1000), each once, and every listed cell
\* has a bucket.
C20_GridAgreesWithCells ==
    /\ \A key \in DOMAIN grid_ : \A ptr \in Addr :
          ptr \in grid_[key] <=>
              /\ ptr \in Registered
              /\ ~heap[ptr].infinite
              /\ key \in SeqRange(heap[ptr].occupiedCells)
    /\ \A ptr \in Registered :
          ~heap[ptr].infinite =>
              /\ SeqRange(heap[ptr].occupiedCells) = SpannedCells(heap[ptr])
              /\ Len(heap[ptr].occupiedCells) = Cardinality(SpannedCells(heap[ptr]))
              /\ SeqRange(heap[ptr].occupiedCells) \subseteq DOMAIN grid_

\* Two live shapes share a bucket, one of them listing four cells, after a
\* shape the player was inside has been deleted.
C20_Witness ==
    /\ \E key \in DOMAIN grid_ : Cardinality(grid_[key]) = 2
    /\ \E ptr \in Registered : Len(heap[ptr].occupiedCells) = 4
    /\ gone.stage # "none"

\* C21: a tick, skipped or not, changes neither the registry, the shapes
\* (parameters, infinite flag, occupied cells), the grid nor the infinite
\* set; a create or a delete queues no event; and a create leaves the
\* membership set as it was, so that the new shape can be reported entered
\* only by a tick.
C21_FrameEffects ==
    /\ [][last'.op = "Update" =>
            UNCHANGED <<heap, colShapes_, grid_, infiniteShapes_>>]_vars
    /\ [][last'.op \in Natives => events' = <<>>]_vars
    /\ [][last'.op = "Create" => UNCHANGED playerInsideColShapes_]_vars
    /\ [][(\E i \in DOMAIN events' : events'[i].name = "onPlayerEnterColshape")
            => last'.op = "Update"]_vars

\* The player was inside "zone1" when it was deleted, and a shape that
\* contains a position of the player has just been created under the same
\* id: it is not in the membership set.
C21_Witness ==
    /\ last = [op |-> "Create", id |-> "zone1", ret |-> TRUE]
    /\ gone.id = "zone1" /\ gone.stage = "new"
    /\ \E p \in Points : IsPointInColShape(p, heap[colShapes_["zone1"]])
    /\ colShapes_["zone1"] \notin playerInsideColShapes_

====
